---- MODULE Spec2Model ----
(***************************************************************************)
(* A model of LLMCache (src/src/index.ts): the conversation store facade   *)
(* over the key/list/flow client declared in                               *)
(* src/types/sdk-ioredis-fastify.d.ts.                                     *)
(*                                                                         *)
(* JavaScript values.  An optional value is <<>> when it is undefined (or  *)
(* null) and <<v>> when it is v.  An object is a function from its own     *)
(* property names to optional values: a property may be missing, or        *)
(* present with the value undefined, and the two differ for the spread     *)
(* operator.  An object stored as a property is itself wrapped, <<obj>>.   *)
(***************************************************************************)
EXTENDS Integers, Sequences, FiniteSets, TLC

\* ------------------------------------------------------------------ bounds
\* operations invoked in one behaviour of the sequential specification
MaxOps == 3
\* operations invoked in one behaviour of the two-caller, two-user specification
MaxConcOps == 3
\* operations invoked in one behaviour of the two-caller, one-user specification
MaxRaceOps == 4
\* operations invoked in one behaviour of the model-selection specification
MaxModelOps == 4
\* operations invoked in one behaviour of the metadata specification
MaxMetaOps == 4
\* operations invoked in one behaviour of the clearHistory specification
MaxClearOps == 5
\* operations invoked in one behaviour of the message-list specification
MaxWindowOps == 6
\* operations invoked in one behaviour of the upsert-and-clear specification
MaxStaleOps == 5
\* addMessage calls invoked in one behaviour of the concurrent-append specification
MaxAppendOps == 4
\* operations invoked in one behaviour of the failing-store specification
MaxErrOps == 3
\* operations invoked in one behaviour of the expiry specification
MaxTTLOps == 4
\* ticks of the store's clock in one behaviour
MaxClock == 2
\* the largest lastN a caller asks for
MaxLastN == 6

\* ------------------------------------------------------------ JS values
Undefined == <<>>
Null == <<>>
Some(v) == <<v>>
\* the object of an optional object; spreading undefined spreads nothing
EmptyObj == [k \in {} |-> Undefined]
ObjOf(v) == IF v = Undefined THEN EmptyObj ELSE v[1]
\* o.k
Get(o, k) == IF k \in DOMAIN o THEN o[k] ELSE Undefined
\* {...a, ...b}
Spread(a, b) == [k \in (DOMAIN a) \cup (DOMAIN b) |-> IF k \in DOMAIN b THEN b[k] ELSE a[k]]
\* a ?? b
Coalesce(a, b) == IF a = Undefined THEN b ELSE a

\* the properties of Message and ConversationMetadata that hold an object
NestedKeys == {"tokenUsage", "userPreferences", "toolState", "extra", "metadata"}
\* the counters of TokenUsage
TokenKeys == {"promptTokens", "completionTokens", "totalTokens"}

\* JSON.stringify leaves out every property whose value is undefined, at
\* every depth.  A JSON document is modelled by the object it parses to.
DropUndefined(o) == [k \in {j \in DOMAIN o : o[j] # Undefined} |-> o[k]]
JSONStringify(o) ==
    [k \in {j \in DOMAIN o : o[j] # Undefined} |->
        IF k \in NestedKeys THEN Some(DropUndefined(o[k][1])) ELSE o[k]]
JSONParse(doc) == doc

\* ------------------------------------------------------------- inputs
Users == {"u1", "u1:model"}
SeqCallers == {"c1"}
ConcCallers == {"c1", "c2"}
AppendCallers == {"c1", "c2", "c3"}

MessageInputs ==
    { [role |-> Some("user"), content |-> Some("hi"), metadata |-> Undefined],
      [role |-> Some("assistant"), content |-> Some("ok"), timestamp |-> Some(0),
       metadata |-> Some([latencyMs |-> Some(120), language |-> Undefined])] }

ModelNames == {"modelA", "modelB"}

\* partial updates; a property may be given as undefined (the optional
\* properties of Partial<ConversationMetadata> and of TokenUsage admit it)
MetaInputs ==
    { [summary |-> Some("s1"), totalTurns |-> Some(1)],
      [summary |-> Undefined, goal |-> Some("g")],
      [tokenUsage |-> Some([promptTokens |-> Some(5)])],
      [tokenUsage |-> Some([completionTokens |-> Some(10)])],
      [tokenUsage |-> Some([promptTokens |-> Undefined, totalTokens |-> Some(15)])],
      [summary |-> Some("s2"), userPreferences |-> Some([language |-> Some("pt")]),
       extra |-> Some([k |-> Undefined])],
      [userPreferences |-> Some([language |-> Some("en"), theme |-> Some("dark")]),
       tokenUsage |-> Undefined] }

LastNInputs == {Undefined} \cup {Some(n) : n \in -1..MaxLastN}

\* getInstance's arguments: called with a string and options ("string"), with a
\* configuration object ("object") or with nothing ("none")
URL == "http://localhost:3000"
GetInstanceInputs ==
    { [form |-> "none", baseURL |-> "", obj |-> Undefined],
      [form |-> "string", baseURL |-> "", obj |-> Some([conversationTTLSeconds |-> Some(2)])],
      [form |-> "object", baseURL |-> "", obj |-> Some([baseURL |-> Some(""), modelTTLSeconds |-> Some(1)])],
      [form |-> "object", baseURL |-> "", obj |-> Some([conversationTTLSeconds |-> Some(2)])],
      [form |-> "string", baseURL |-> URL, obj |-> Some(EmptyObj)],
      [form |-> "string", baseURL |-> URL, obj |-> Some([conversationTTLSeconds |-> Some(2), apiVersion |-> Some("v2")])],
      [form |-> "object", baseURL |-> "", obj |-> Some([baseURL |-> Some(URL), conversationTTLSeconds |-> Some(2), modelTTLSeconds |-> Some(1)])] }

\* configurations for the expiries: each TTL absent, zero, negative or positive
ConversationTTLs == {EmptyObj} \cup {[conversationTTLSeconds |-> Some(n)] : n \in {0, -1, 2}}
ModelTTLs == {EmptyObj} \cup {[modelTTLSeconds |-> Some(n)] : n \in {0, -1, 1}}
TTLInstanceInputs ==
    { [form |-> "object", baseURL |-> "",
       obj |-> Some(Spread([baseURL |-> Some(URL)], Spread(ct, mt)))] :
          ct \in ConversationTTLs, mt \in ModelTTLs }

\* the n-th message a caller appends in the concurrent-append specification:
\* its content names the caller and n
Numeral(n) == IF n = 1 THEN "1" ELSE IF n = 2 THEN "2" ELSE IF n = 3 THEN "3"
              ELSE IF n = 4 THEN "4" ELSE "5"
MessageOf(c, n) == [role |-> Some("user"), content |-> Some(c \o "#" \o Numeral(n))]

\* the operations, and the errors a store call is rejected with
Operations == {"addMessage", "setModel", "getModel", "upsertConversationMetadata",
               "getConversationMetadata", "getConversationWindow", "clearHistory"}
StoreErrors == {"ECONNRESET", "HTTP 500"}

\* ------------------------------------------------------- key derivation
\* a slip: the messages key leaves the user identifier out
getMessagesKeyUnscoped(userId) == "llm-cache:messages"
getMessagesKey(userId) == "llm-cache:" \o userId \o ":messages"
\* a slip: the model key leaves out the user
getModelKeyShared(userId) == "llm-cache:model"
getModelKey(userId) == "llm-cache:" \o userId \o ":model"
getMetadataKey(userId) == "llm-cache:" \o userId \o ":metadata"
UserKeys(u) == {getMessagesKey(u), getModelKey(u), getMetadataKey(u)}
Keys == UNION {UserKeys(u) : u \in Users}

\* ----------------------------------------------------------- the merge
\* a slip: the counters of the update are added to the stored ones
SumOf(a, b) == IF a = Undefined THEN b ELSE IF b = Undefined THEN a ELSE Some(a[1] + b[1])
mergeTokenUsageAdds(current, incoming) ==
    IF current = Undefined /\ incoming = Undefined
    THEN Undefined
    ELSE Some([k \in TokenKeys |-> SumOf(Get(ObjOf(incoming), k), Get(ObjOf(current), k))])

mergeTokenUsage(current, incoming) ==
    IF current = Undefined /\ incoming = Undefined
    THEN Undefined
    ELSE LET c == ObjOf(current)
             i == ObjOf(incoming)
         IN Some(Spread(Spread(c, i),
                        [k \in TokenKeys |-> Coalesce(Get(i, k), Get(c, k))]))

\* a slip: a shallow merge, the update's nested maps replace the stored ones
mergeMetadataShallow(current, incoming) == Spread(ObjOf(current), incoming)
\* a slip: the stored record is spread last, so its scalars win
mergeMetadataStoredWins(current, incoming) ==
    LET cur == ObjOf(current)
        merged(k) == Some(Spread(ObjOf(Get(cur, k)), ObjOf(Get(incoming, k))))
    IN Spread(Spread(incoming, cur),
              [tokenUsage |-> mergeTokenUsage(Get(cur, "tokenUsage"), Get(incoming, "tokenUsage")),
               userPreferences |-> merged("userPreferences"),
               toolState |-> merged("toolState"),
               extra |-> merged("extra")])

mergeMetadata(current, incoming) ==
    LET cur == ObjOf(current)
        mergedTokenUsage == mergeTokenUsage(Get(cur, "tokenUsage"), Get(incoming, "tokenUsage"))
        merged(k) == Some(Spread(ObjOf(Get(cur, k)), ObjOf(Get(incoming, k))))
    IN Spread(Spread(cur, incoming),
              [tokenUsage |-> mergedTokenUsage,
               userPreferences |-> merged("userPreferences"),
               toolState |-> merged("toolState"),
               extra |-> merged("extra")])

\* ------------------------------------------------------------- the store
\* a key with no expiry
NoTTL == -1

\* lists.push(key, values): the values go to the tail of the list
listsPush(list, values) == list \o values

\* flow().del(k1).del(k2)...execute(): one request, which the store runs as a whole
flowExecute(st, dels, absent) == [k \in DOMAIN st |-> IF k \in dels THEN absent ELSE st[k]]

\* lists.getRange(key, start, stop), Redis LRANGE: negative indices count from
\* the tail, out-of-range ones are clamped
Max(a, b) == IF a > b THEN a ELSE b
Min(a, b) == IF a < b THEN a ELSE b
getRange(list, start, stop) ==
    LET len == Len(list)
        s == IF start < 0 THEN Max(len + start, 0) ELSE start
        e == IF stop < 0 THEN len + stop ELSE Min(stop, len - 1)
    IN IF s > e \/ s >= len THEN <<>> ELSE [i \in 1..(e - s + 1) |-> JSONParse(list[s + i])]

VARIABLES
    instance,   \* LLMCache.instance: Undefined, or <<the configuration it was built with>>
    lastInit,   \* how the last getInstance ended: "none" (no call yet), "threw", "created" (returned a new instance) or "existing" (returned the one there was)
    store,      \* the store: key -> <<>> (no such key), <<value>> (a string key) or a list
    ttl,        \* the store: key -> seconds left, or NoTTL
    now,        \* the store's clock, also Date.now()
    calls,      \* caller -> the operation it is in, its position and its locals
    budget,     \* operations that may still be invoked
    appended,   \* history: user -> the messages pushed since the list last went away
    lastModel,  \* history: user -> the model last set (and the one set before it) since the model last went away
    lastUpsert, \* history: user -> the last upsert written (its update, its result, the document stored) since the metadata last went away
    cleared     \* history: user -> the keys the last clearHistory removed, while nothing was written since

vars == <<instance, lastInit, store, ttl, now, calls, budget, appended, lastModel, lastUpsert, cleared>>
hist == <<appended, lastModel, lastUpsert, cleared>>

\* a caller's record: the operation, where it is (pc), its arguments and locals,
\* what it returned, and (history) what was known of its user when it read
\* or, for an upsert, when it wrote (base, afterClear) and the document it stored
\* (wrote); the error it ended with
\* (err) and (history) the error its failed store call was rejected with (thrown)
NotCleared == [on |-> FALSE, removed |-> {}]
Idle == [op |-> "idle", pc |-> "done", user |-> "", key |-> "", arg |-> <<>>,
         ttlSeconds |-> <<>>, cur |-> <<>>, merged |-> <<>>, range |-> <<>>, ret |-> <<>>,
         base |-> <<>>, afterClear |-> NotCleared, wrote |-> <<>>,
         err |-> <<>>, thrown |-> <<>>]

InitWith(callers, ops) ==
    /\ instance = Undefined
    /\ lastInit = "none"
    /\ store = [k \in Keys |-> <<>>]
    /\ ttl = [k \in Keys |-> NoTTL]
    /\ now = 0
    /\ calls = [c \in callers |-> Idle]
    /\ budget = ops
    /\ appended = [u \in Users |-> <<>>]
    /\ lastModel = [u \in Users |-> Undefined]
    /\ lastUpsert = [u \in Users |-> Undefined]
    /\ cleared = [u \in Users |-> NotCleared]

Init == InitWith(SeqCallers, MaxOps)
WindowInit == InitWith(SeqCallers, MaxWindowOps)
MetaInit == InitWith(SeqCallers, MaxMetaOps)
ClearInit == InitWith(SeqCallers, MaxClearOps)
ConcInit == InitWith(ConcCallers, MaxConcOps)
RaceInit == InitWith(ConcCallers, MaxRaceOps)
ModelInit == InitWith(SeqCallers, MaxModelOps)
TTLInit == InitWith(SeqCallers, MaxTTLOps)
ErrInit == InitWith(SeqCallers, MaxErrOps)
AppendInit == InitWith(AppendCallers, MaxAppendOps)
StaleInit == InitWith(ConcCallers, MaxStaleOps)

\* ------------------------------------------------------------ getInstance
\* the constructor: apiVersion defaults to 'v1', the TTLs are kept as given
construct(config) ==
    [baseURL |-> Get(config, "baseURL"),
     apiVersion |-> Coalesce(Get(config, "apiVersion"), Some("v1")),
     conversationTTLSeconds |-> Get(config, "conversationTTLSeconds"),
     modelTTLSeconds |-> Get(config, "modelTTLSeconds")]

\* the configuration getInstance derives from its arguments
configOf(a) ==
    IF a.form = "string"
    THEN Some(Spread([baseURL |-> Some(a.baseURL)], ObjOf(a.obj)))
    ELSE a.obj

\* a slip: only a missing baseURL is refused, an empty one is accepted
noBaseURLUndefinedOnly(config) ==
    \/ config = Undefined
    \/ Get(config[1], "baseURL") = Undefined
\* !config?.baseURL
noBaseURL(config) ==
    \/ config = Undefined
    \/ Get(config[1], "baseURL") = Undefined
    \/ Get(config[1], "baseURL") = Some("")

\* a slip: the arguments are checked on every call, also when the instance exists
getInstanceAlwaysChecks(a) ==
    /\ IF noBaseURL(configOf(a))
       THEN /\ lastInit' = "threw"
            /\ instance' = instance
       ELSE IF instance = Undefined
            THEN /\ lastInit' = "created"
                 /\ instance' = Some(construct(configOf(a)[1]))
            ELSE /\ lastInit' = "existing"
                 /\ instance' = instance
    /\ UNCHANGED <<store, ttl, now, calls, budget, hist>>

getInstance(a) ==
    /\ IF instance = Undefined
       THEN IF noBaseURL(configOf(a))
            THEN /\ lastInit' = "threw"
                 /\ instance' = instance
            ELSE /\ lastInit' = "created"
                 /\ instance' = Some(construct(configOf(a)[1]))
       ELSE /\ lastInit' = "existing"
            /\ instance' = instance
    /\ UNCHANGED <<store, ttl, now, calls, budget, hist>>

\* ------------------------------------------------------------ operations
conversationTTLSeconds == instance[1].conversationTTLSeconds
modelTTLSeconds == instance[1].modelTTLSeconds

\* a caller may start an operation
Ready(c) == instance # Undefined /\ calls[c].pc = "done" /\ budget > 0

\* applyTTL's condition: ttlSeconds && ttlSeconds > 0
wantsExpire(ttlSeconds) == ttlSeconds # Undefined /\ ttlSeconds[1] > 0

\* where a write goes after its store call: to applyTTL's expire, or to its end
afterWrite(ttlSeconds) == IF wantsExpire(ttlSeconds) THEN "expire" ELSE "done"

\* message.timestamp ?? Date.now()
normalize(message) == Spread(message, [timestamp |-> Coalesce(Get(message, "timestamp"), Some(now))])

\* a slip: the message is stored as the whole list, in place of what was there
addMessagePushReplaces(c, userId, message) ==
    /\ Ready(c)
    /\ LET key == getMessagesKey(userId)
           normalizedMessage == normalize(message)
       IN /\ store' = [store EXCEPT ![key] = <<JSONStringify(normalizedMessage)>>]
          /\ calls' = [calls EXCEPT ![c] = [Idle EXCEPT !.op = "addMessage", !.user = userId,
                            !.key = key, !.arg = message, !.ttlSeconds = conversationTTLSeconds,
                            !.pc = afterWrite(conversationTTLSeconds)]]
          /\ appended' = [appended EXCEPT ![userId] = Append(@, normalizedMessage)]
    /\ cleared' = [cleared EXCEPT ![userId] = NotCleared]
    /\ budget' = budget - 1
    /\ UNCHANGED <<instance, lastInit, ttl, now, lastModel, lastUpsert>>

\* a slip: the message is pushed with direction 'left', to the head of the list
addMessagePushToHead(c, userId, message) ==
    /\ Ready(c)
    /\ LET key == getMessagesKey(userId)
           normalizedMessage == normalize(message)
       IN /\ store' = [store EXCEPT ![key] = <<JSONStringify(normalizedMessage)>> \o @]
          /\ calls' = [calls EXCEPT ![c] = [Idle EXCEPT !.op = "addMessage", !.user = userId,
                            !.key = key, !.arg = message, !.ttlSeconds = conversationTTLSeconds,
                            !.pc = afterWrite(conversationTTLSeconds)]]
          /\ appended' = [appended EXCEPT ![userId] = Append(@, normalizedMessage)]
    /\ cleared' = [cleared EXCEPT ![userId] = NotCleared]
    /\ budget' = budget - 1
    /\ UNCHANGED <<instance, lastInit, ttl, now, lastModel, lastUpsert>>

\* addMessage up to its first store call: lists.push(key, [JSON.stringify(normalizedMessage)])
addMessagePush(c, userId, message) ==
    /\ Ready(c)
    /\ LET key == getMessagesKey(userId)
           normalizedMessage == normalize(message)
       IN /\ store' = [store EXCEPT ![key] = listsPush(@, <<JSONStringify(normalizedMessage)>>)]
          /\ calls' = [calls EXCEPT ![c] = [Idle EXCEPT !.op = "addMessage", !.user = userId,
                            !.key = key, !.arg = message, !.ttlSeconds = conversationTTLSeconds,
                            !.pc = afterWrite(conversationTTLSeconds)]]
          /\ appended' = [appended EXCEPT ![userId] = Append(@, normalizedMessage)]
    /\ cleared' = [cleared EXCEPT ![userId] = NotCleared]
    /\ budget' = budget - 1
    /\ UNCHANGED <<instance, lastInit, ttl, now, lastModel, lastUpsert>>

\* the end of an operation: upsertConversationMetadata returns mergedMetadata
finish(call) ==
    [call EXCEPT !.pc = "done",
                 !.ret = IF call.op = "upsertConversationMetadata" THEN call.merged ELSE @]

\* a slip: the expiry is set when the key has none, and left alone when it has one
applyTTLOnlyIfNone(c) ==
    /\ calls[c].pc = "expire"
    /\ ttl' = [ttl EXCEPT ![calls[c].key] =
                   IF store[calls[c].key] # <<>> /\ @ = NoTTL THEN calls[c].ttlSeconds[1] ELSE @]
    /\ calls' = [calls EXCEPT ![c] = finish(@)]
    /\ UNCHANGED <<instance, lastInit, store, now, budget, hist>>

\* applyTTL's store call, keys.expire(key, ttlSeconds), which ends the operation
applyTTL(c) ==
    /\ calls[c].pc = "expire"
    /\ ttl' = [ttl EXCEPT ![calls[c].key] = IF store[calls[c].key] # <<>> THEN calls[c].ttlSeconds[1] ELSE @]
    /\ calls' = [calls EXCEPT ![c] = finish(@)]
    /\ UNCHANGED <<instance, lastInit, store, now, budget, hist>>

\* setModel up to its first store call: keys.set(key, modelName)
setModelSet(c, userId, modelName) ==
    /\ Ready(c)
    /\ LET key == getModelKey(userId)
           ttlSeconds == Coalesce(modelTTLSeconds, conversationTTLSeconds)
       IN /\ store' = [store EXCEPT ![key] = Some(modelName)]
          /\ ttl' = [ttl EXCEPT ![key] = NoTTL]
          /\ calls' = [calls EXCEPT ![c] = [Idle EXCEPT !.op = "setModel", !.user = userId,
                            !.key = key, !.arg = Some(modelName), !.ttlSeconds = ttlSeconds,
                            !.pc = afterWrite(ttlSeconds)]]
    /\ lastModel' = [lastModel EXCEPT ![userId] =
                         Some([name |-> modelName,
                               prev |-> IF @ = Undefined THEN Undefined ELSE Some(@[1].name)])]
    /\ cleared' = [cleared EXCEPT ![userId] = NotCleared]
    /\ budget' = budget - 1
    /\ UNCHANGED <<instance, lastInit, now, appended, lastUpsert>>

\* getModel: keys.get(key)
getModel(c, userId) ==
    /\ Ready(c)
    /\ LET key == getModelKey(userId)
       IN calls' = [calls EXCEPT ![c] = [Idle EXCEPT !.op = "getModel", !.user = userId,
                            !.key = key, !.ret = store[key],
                            !.base = lastModel[userId], !.afterClear = cleared[userId]]]
    /\ budget' = budget - 1
    /\ UNCHANGED <<instance, lastInit, store, ttl, now, hist>>

\* upsertConversationMetadata up to its first store call, keys.get(key), and the
\* merge that follows it
upsertGet(c, userId, metadata) ==
    /\ Ready(c)
    /\ LET key == getMetadataKey(userId)
           currentMetadata == IF store[key] = <<>> THEN Null ELSE Some(JSONParse(store[key][1]))
           mergedMetadata == mergeMetadata(Coalesce(currentMetadata, Undefined), metadata)
       IN calls' = [calls EXCEPT ![c] = [Idle EXCEPT !.op = "upsertConversationMetadata",
                            !.user = userId, !.key = key, !.arg = Some(metadata),
                            !.ttlSeconds = conversationTTLSeconds, !.cur = currentMetadata,
                            !.merged = Some(mergedMetadata), !.base = lastUpsert[userId],
                            !.pc = "set"]]
    /\ budget' = budget - 1
    /\ UNCHANGED <<instance, lastInit, store, ttl, now, hist>>

\* a slip: the update is stored, not the merged record
setPayloadIsUpdate(metadata, mergedMetadata) == metadata
\* the value upsertConversationMetadata stores: mergedMetadata
setPayload(metadata, mergedMetadata) == mergedMetadata

\* a slip: the write merges the update into the record stored at the time of
\* the write, not into the record the operation read
upsertSetRereads(c) ==
    /\ calls[c].pc = "set"
    /\ LET key == calls[c].key
           stored == IF store[key] = <<>> THEN Undefined ELSE Some(JSONParse(store[key][1]))
       IN store' = [store EXCEPT ![key] = Some(JSONStringify(mergeMetadata(stored, calls[c].arg[1])))]
    /\ ttl' = [ttl EXCEPT ![calls[c].key] = NoTTL]
    /\ calls' = [calls EXCEPT ![c] =
                     LET written == [@ EXCEPT !.wrote = store'[calls[c].key],
                                              !.afterClear = cleared[calls[c].user]]
                     IN IF wantsExpire(calls[c].ttlSeconds)
                        THEN [written EXCEPT !.pc = "expire"]
                        ELSE finish(written)]
    /\ lastUpsert' = [lastUpsert EXCEPT ![calls[c].user] =
                          Some([arg |-> calls[c].arg[1], ret |-> calls[c].merged[1],
                                doc |-> store'[calls[c].key][1]])]
    /\ cleared' = [cleared EXCEPT ![calls[c].user] = NotCleared]
    /\ UNCHANGED <<instance, lastInit, now, budget, appended, lastModel>>

\* upsertConversationMetadata's second store call: keys.set(key, mergedMetadata)
upsertSet(c) ==
    /\ calls[c].pc = "set"
    /\ store' = [store EXCEPT ![calls[c].key] =
                     Some(JSONStringify(setPayload(calls[c].arg[1], calls[c].merged[1])))]
    /\ ttl' = [ttl EXCEPT ![calls[c].key] = NoTTL]
    /\ calls' = [calls EXCEPT ![c] =
                     LET written == [@ EXCEPT !.wrote = store'[calls[c].key],
                                              !.afterClear = cleared[calls[c].user]]
                     IN IF wantsExpire(calls[c].ttlSeconds)
                        THEN [written EXCEPT !.pc = "expire"]
                        ELSE finish(written)]
    /\ lastUpsert' = [lastUpsert EXCEPT ![calls[c].user] =
                          Some([arg |-> calls[c].arg[1], ret |-> calls[c].merged[1],
                                doc |-> store'[calls[c].key][1]])]
    /\ cleared' = [cleared EXCEPT ![calls[c].user] = NotCleared]
    /\ UNCHANGED <<instance, lastInit, now, budget, appended, lastModel>>

\* getConversationMetadata: keys.get(key)
getConversationMetadata(c, userId) ==
    /\ Ready(c)
    /\ LET key == getMetadataKey(userId)
       IN calls' = [calls EXCEPT ![c] = [Idle EXCEPT !.op = "getConversationMetadata",
                            !.user = userId, !.key = key,
                            !.ret = IF store[key] = <<>> THEN Null ELSE Some(JSONParse(store[key][1])),
                            !.base = lastUpsert[userId], !.afterClear = cleared[userId]]]
    /\ budget' = budget - 1
    /\ UNCHANGED <<instance, lastInit, store, ttl, now, hist>>

\* a slip: the range starts after the first message when no lastN is given
windowRangeSkipsFirst(lastN) ==
    <<IF lastN # Undefined /\ lastN[1] # 0 /\ lastN[1] > 0 THEN -lastN[1] ELSE 1, -1>>
\* a slip: the start index is lastN, not -lastN
windowRangeFromHead(lastN) ==
    <<IF lastN # Undefined /\ lastN[1] # 0 /\ lastN[1] > 0 THEN lastN[1] ELSE 0, -1>>
\* the range getConversationWindow asks for: start = -lastN if (lastN && lastN > 0),
\* else 0; stop = -1
windowRange(lastN) ==
    <<IF lastN # Undefined /\ lastN[1] # 0 /\ lastN[1] > 0 THEN -lastN[1] ELSE 0, -1>>

\* getConversationWindow: lists.getRange(key, start, -1)
getConversationWindow(c, userId, lastN) ==
    /\ Ready(c)
    /\ LET key == getMessagesKey(userId)
       IN calls' = [calls EXCEPT ![c] = [Idle EXCEPT !.op = "getConversationWindow",
                            !.user = userId, !.key = key, !.arg = lastN,
                            !.range = windowRange(lastN),
                            !.ret = getRange(store[key], windowRange(lastN)[1], windowRange(lastN)[2]),
                            !.base = appended[userId], !.afterClear = cleared[userId]]]
    /\ budget' = budget - 1
    /\ UNCHANGED <<instance, lastInit, store, ttl, now, hist>>

\* a slip: the flow deletes the messages and the model, and leaves the metadata
clearedKeysWithoutMetadata(userId) == {getMessagesKey(userId), getModelKey(userId)}
\* a slip: the flow deletes the messages and the metadata, and leaves the model
clearedKeysWithoutModel(userId) == {getMessagesKey(userId), getMetadataKey(userId)}
\* the keys clearHistory's flow deletes
clearedKeys(userId) == {getMessagesKey(userId), getModelKey(userId), getMetadataKey(userId)}

\* a slip: the deletes go out as separate requests, and the operation's first
\* store call removes the message list alone
clearHistoryFirstDel(c, userId) ==
    /\ Ready(c)
    /\ store' = flowExecute(store, {getMessagesKey(userId)}, <<>>)
    /\ ttl' = flowExecute(ttl, {getMessagesKey(userId)}, NoTTL)
    /\ calls' = [calls EXCEPT ![c] = [Idle EXCEPT !.op = "clearHistory", !.user = userId]]
    /\ appended' = [appended EXCEPT ![userId] = <<>>]
    /\ cleared' = [cleared EXCEPT ![userId] =
                       [on |-> TRUE, removed |-> {k \in UserKeys(userId) : store[k] # <<>>}]]
    /\ budget' = budget - 1
    /\ UNCHANGED <<instance, lastInit, now, lastModel, lastUpsert>>

\* clearHistory: flow().del(messagesKey).del(modelKey).del(metadataKey).execute()
clearHistory(c, userId) ==
    /\ Ready(c)
    /\ store' = flowExecute(store, clearedKeys(userId), <<>>)
    /\ ttl' = flowExecute(ttl, clearedKeys(userId), NoTTL)
    /\ calls' = [calls EXCEPT ![c] = [Idle EXCEPT !.op = "clearHistory", !.user = userId]]
    /\ appended' = [appended EXCEPT ![userId] = <<>>]
    /\ lastModel' = [lastModel EXCEPT ![userId] = Undefined]
    /\ lastUpsert' = [lastUpsert EXCEPT ![userId] = Undefined]
    /\ cleared' = [cleared EXCEPT ![userId] =
                       [on |-> TRUE, removed |-> {k \in UserKeys(userId) : store[k] # <<>>}]]
    /\ budget' = budget - 1
    /\ UNCHANGED <<instance, lastInit, now>>

\* what the caller gets when an awaited store call is rejected with e: no
\* operation has a try/catch, so the rejection is the operation's own
rejectionOf(e) == e

\* a slip: the failed call is issued again, the operation stays where it is
storeCallFailsAndRetries(c, e) ==
    /\ calls[c].pc \in {"set", "expire"}
    /\ calls' = [calls EXCEPT ![c] = [@ EXCEPT !.thrown = Some(e)]]
    /\ UNCHANGED <<instance, lastInit, store, ttl, now, budget, hist>>

\* the first store call of an operation is rejected with e: the operation ends
\* with the rejection, having changed nothing
firstCallFails(c, op, userId, e) ==
    /\ Ready(c)
    /\ calls' = [calls EXCEPT ![c] = [Idle EXCEPT !.op = op, !.user = userId,
                      !.thrown = Some(e), !.err = Some(rejectionOf(e))]]
    /\ budget' = budget - 1
    /\ UNCHANGED <<instance, lastInit, store, ttl, now, hist>>

\* a later store call of an operation (upsertConversationMetadata's set, applyTTL's
\* expire) is rejected with e: the operation ends with the rejection, and what
\* its earlier calls stored stays
storeCallFails(c, e) ==
    /\ calls[c].pc \in {"set", "expire"}
    /\ calls' = [calls EXCEPT ![c] = [@ EXCEPT !.pc = "done", !.thrown = Some(e),
                                                !.err = Some(rejectionOf(e))]]
    /\ UNCHANGED <<instance, lastInit, store, ttl, now, budget, hist>>

\* one second passes in the store: every expiry counts down, and a key whose
\* expiry runs out goes away
tick ==
    /\ now < MaxClock
    /\ now' = now + 1
    /\ store' = [k \in Keys |-> IF ttl[k] = 1 THEN <<>> ELSE store[k]]
    /\ ttl' = [k \in Keys |-> IF ttl[k] = 1 THEN NoTTL ELSE IF ttl[k] > 1 THEN ttl[k] - 1 ELSE ttl[k]]
    /\ appended' = [u \in Users |-> IF ttl[getMessagesKey(u)] = 1 THEN <<>> ELSE appended[u]]
    /\ lastModel' = [u \in Users |-> IF ttl[getModelKey(u)] = 1 THEN Undefined ELSE lastModel[u]]
    /\ lastUpsert' = [u \in Users |-> IF ttl[getMetadataKey(u)] = 1 THEN Undefined ELSE lastUpsert[u]]
    /\ UNCHANGED <<instance, lastInit, calls, budget, cleared>>

\* ------------------------------------------------------- specifications
\* every operation, on every user, with every input
Next ==
    \/ \E a \in GetInstanceInputs : getInstance(a)
    \/ tick
    \/ \E c \in DOMAIN calls, u \in Users, m \in MessageInputs : addMessagePush(c, u, m)
    \/ \E c \in DOMAIN calls, u \in Users, n \in ModelNames : setModelSet(c, u, n)
    \/ \E c \in DOMAIN calls, u \in Users : getModel(c, u)
    \/ \E c \in DOMAIN calls, u \in Users, p \in MetaInputs : upsertGet(c, u, p)
    \/ \E c \in DOMAIN calls : upsertSet(c)
    \/ \E c \in DOMAIN calls : applyTTL(c)
    \/ \E c \in DOMAIN calls, u \in Users : getConversationMetadata(c, u)
    \/ \E c \in DOMAIN calls, u \in Users, n \in LastNInputs : getConversationWindow(c, u, n)
    \/ \E c \in DOMAIN calls, u \in Users : clearHistory(c, u)

\* the operations on the message list of one user
WindowNext ==
    \/ \E a \in GetInstanceInputs : getInstance(a)
    \/ tick
    \/ \E c \in DOMAIN calls, m \in MessageInputs : addMessagePush(c, "u1", m)
    \/ \E c \in DOMAIN calls : applyTTL(c)
    \/ \E c \in DOMAIN calls, n \in LastNInputs : getConversationWindow(c, "u1", n)
    \/ \E c \in DOMAIN calls : clearHistory(c, "u1")

\* the operations on the metadata of one user
MetaNext ==
    \/ \E a \in GetInstanceInputs : getInstance(a)
    \/ tick
    \/ \E c \in DOMAIN calls, p \in MetaInputs : upsertGet(c, "u1", p)
    \/ \E c \in DOMAIN calls : upsertSet(c)
    \/ \E c \in DOMAIN calls : applyTTL(c)
    \/ \E c \in DOMAIN calls : getConversationMetadata(c, "u1")
    \/ \E c \in DOMAIN calls : clearHistory(c, "u1")

\* every operation on one user, with one or two inputs each
ClearNext ==
    \/ \E a \in GetInstanceInputs : getInstance(a)
    \/ tick
    \/ \E c \in DOMAIN calls, m \in MessageInputs : addMessagePush(c, "u1", m)
    \/ \E c \in DOMAIN calls : setModelSet(c, "u1", "modelA")
    \/ \E c \in DOMAIN calls : getModel(c, "u1")
    \/ \E c \in DOMAIN calls, p \in {q \in MetaInputs : "summary" \in DOMAIN q} : upsertGet(c, "u1", p)
    \/ \E c \in DOMAIN calls : upsertSet(c)
    \/ \E c \in DOMAIN calls : applyTTL(c)
    \/ \E c \in DOMAIN calls : getConversationMetadata(c, "u1")
    \/ \E c \in DOMAIN calls, n \in {Undefined, Some(1)} : getConversationWindow(c, "u1", n)
    \/ \E c \in DOMAIN calls : clearHistory(c, "u1")

\* the operations on the model selection of every user
ModelNext ==
    \/ \E a \in GetInstanceInputs : getInstance(a)
    \/ tick
    \/ \E c \in DOMAIN calls, u \in Users, n \in ModelNames : setModelSet(c, u, n)
    \/ \E c \in DOMAIN calls : applyTTL(c)
    \/ \E c \in DOMAIN calls, u \in Users : getModel(c, u)
    \/ \E c \in DOMAIN calls, u \in Users : clearHistory(c, u)

\* the inputs of the two-caller specifications: one message, one model name, two updates
RaceMessages == {m \in MessageInputs : "timestamp" \notin DOMAIN m}
RaceMetas == {p \in MetaInputs : p = [summary |-> Some("s1"), totalTurns |-> Some(1)]
                                  \/ p = [tokenUsage |-> Some([promptTokens |-> Some(5)])]}

\* every operation, on every user, with the inputs of the two-caller specifications
ConcNext ==
    \/ \E a \in GetInstanceInputs : getInstance(a)
    \/ tick
    \/ \E c \in DOMAIN calls, u \in Users, m \in RaceMessages : addMessagePush(c, u, m)
    \/ \E c \in DOMAIN calls, u \in Users : setModelSet(c, u, "modelA")
    \/ \E c \in DOMAIN calls, u \in Users : getModel(c, u)
    \/ \E c \in DOMAIN calls, u \in Users, p \in RaceMetas : upsertGet(c, u, p)
    \/ \E c \in DOMAIN calls : upsertSet(c)
    \/ \E c \in DOMAIN calls : applyTTL(c)
    \/ \E c \in DOMAIN calls, u \in Users : getConversationMetadata(c, u)
    \/ \E c \in DOMAIN calls, u \in Users : getConversationWindow(c, u, Undefined)
    \/ \E c \in DOMAIN calls, u \in Users : clearHistory(c, u)

\* every operation on one user, with the inputs of the two-caller specifications
RaceNext ==
    \/ \E a \in GetInstanceInputs : getInstance(a)
    \/ tick
    \/ \E c \in DOMAIN calls, m \in RaceMessages : addMessagePush(c, "u1", m)
    \/ \E c \in DOMAIN calls : setModelSet(c, "u1", "modelA")
    \/ \E c \in DOMAIN calls : getModel(c, "u1")
    \/ \E c \in DOMAIN calls, p \in RaceMetas : upsertGet(c, "u1", p)
    \/ \E c \in DOMAIN calls : upsertSet(c)
    \/ \E c \in DOMAIN calls : applyTTL(c)
    \/ \E c \in DOMAIN calls : getConversationMetadata(c, "u1")
    \/ \E c \in DOMAIN calls : getConversationWindow(c, "u1", Undefined)
    \/ \E c \in DOMAIN calls : clearHistory(c, "u1")

\* the writes that set an expiry, under every configuration of the TTLs
TTLNext ==
    \/ \E a \in TTLInstanceInputs : getInstance(a)
    \/ tick
    \/ \E c \in DOMAIN calls, m \in RaceMessages : addMessagePush(c, "u1", m)
    \/ \E c \in DOMAIN calls : setModelSet(c, "u1", "modelA")
    \/ \E c \in DOMAIN calls : applyTTL(c)
    \/ \E c \in DOMAIN calls : clearHistory(c, "u1")

\* every operation on one user, each store call succeeding or being rejected
ErrNext ==
    \/ \E a \in GetInstanceInputs : getInstance(a)
    \/ tick
    \/ \E c \in DOMAIN calls, m \in RaceMessages : addMessagePush(c, "u1", m)
    \/ \E c \in DOMAIN calls : setModelSet(c, "u1", "modelA")
    \/ \E c \in DOMAIN calls : getModel(c, "u1")
    \/ \E c \in DOMAIN calls, p \in RaceMetas : upsertGet(c, "u1", p)
    \/ \E c \in DOMAIN calls : upsertSet(c)
    \/ \E c \in DOMAIN calls : applyTTL(c)
    \/ \E c \in DOMAIN calls : getConversationMetadata(c, "u1")
    \/ \E c \in DOMAIN calls : getConversationWindow(c, "u1", Undefined)
    \/ \E c \in DOMAIN calls : clearHistory(c, "u1")
    \/ \E c \in DOMAIN calls, op \in Operations, e \in StoreErrors : firstCallFails(c, op, "u1", e)
    \/ \E c \in DOMAIN calls, e \in StoreErrors : storeCallFails(c, e)

\* how many messages caller c has appended: the number in its last message
SentBy(c) ==
    IF calls[c].op # "addMessage" THEN 0
    ELSE CHOOSE n \in 1..MaxAppendOps + 1 : calls[c].arg = MessageOf(c, n)

\* three callers append to one user's list, each its messages one after the
\* other; no clearHistory, and no time passes
AppendNext ==
    \/ \E a \in GetInstanceInputs : getInstance(a)
    \/ \E c \in DOMAIN calls : addMessagePush(c, "u1", MessageOf(c, SentBy(c) + 1))
    \/ \E c \in DOMAIN calls : applyTTL(c)

\* two callers on one user: appends, upserts, clearHistory and reads of the
\* metadata, the instance given its endpoint as a string
StaleNext ==
    \/ \E a \in {i \in GetInstanceInputs : i.form = "string" /\ i.baseURL = URL} : getInstance(a)
    \/ \E c \in DOMAIN calls, m \in RaceMessages : addMessagePush(c, "u1", m)
    \/ \E c \in DOMAIN calls, p \in RaceMetas : upsertGet(c, "u1", p)
    \/ \E c \in DOMAIN calls : upsertSet(c)
    \/ \E c \in DOMAIN calls : applyTTL(c)
    \/ \E c \in DOMAIN calls : getConversationMetadata(c, "u1")
    \/ \E c \in DOMAIN calls : clearHistory(c, "u1")

\* one caller: operations run one after the other
Spec == Init /\ [][Next]_vars
\* one caller, one user's message list, longer runs
WindowSpec == WindowInit /\ [][WindowNext]_vars
\* one caller, one user's metadata
MetaSpec == MetaInit /\ [][MetaNext]_vars
\* one caller, one user, every operation, longer runs
ClearSpec == ClearInit /\ [][ClearNext]_vars
\* one caller, the model selection of two users
ModelSpec == ModelInit /\ [][ModelNext]_vars
\* two callers, two users: the store calls of their operations interleave
ConcSpec == ConcInit /\ [][ConcNext]_vars
\* one caller, the expiries of one user's message list and model
TTLSpec == TTLInit /\ [][TTLNext]_vars
\* one caller, one user, a store whose calls may be rejected
ErrSpec == ErrInit /\ [][ErrNext]_vars
\* three callers appending to one user's message list
AppendSpec == AppendInit /\ [][AppendNext]_vars
\* two callers on one user, upserts against clearHistory
StaleSpec == StaleInit /\ [][StaleNext]_vars
\* two callers on one user
RaceSpec == RaceInit /\ [][RaceNext]_vars

\* ---------------------------------------------------------------- claims
\* two objects read the same: every property has the same value in both, a
\* missing property reading as undefined
SameProps(a, b) == \A k \in (DOMAIN a) \cup (DOMAIN b) : Get(a, k) = Get(b, k)
SameValue(a, b) ==
    \A k \in (DOMAIN a) \cup (DOMAIN b) :
        IF k \in NestedKeys
        THEN /\ (Get(a, k) = Undefined) <=> (Get(b, k) = Undefined)
             /\ SameProps(ObjOf(Get(a, k)), ObjOf(Get(b, k)))
        ELSE Get(a, k) = Get(b, k)
SameMessages(xs, ys) ==
    /\ Len(xs) = Len(ys)
    /\ \A i \in 1..Len(xs) : SameValue(xs[i], ys[i])

\* the reads of getConversationWindow that have returned
WindowReads == {c \in DOMAIN calls : calls[c].op = "getConversationWindow" /\ calls[c].pc = "done"}

\* C1: getConversationWindow(userId) with no lastN returns exactly the messages
\* appended for the user since the list last went away (clearHistory, expiry),
\* each once, in the order of the addMessage calls.
C1_WindowReturnsAppendedInOrder ==
    \A c \in WindowReads :
        calls[c].arg = Undefined => SameMessages(calls[c].ret, calls[c].base)

\* C1's case: three messages, not all alike, one with a defaulted timestamp, read back
C1_Witness ==
    \E c \in WindowReads :
        /\ calls[c].arg = Undefined
        /\ Len(calls[c].base) = 3
        /\ calls[c].base[1] # calls[c].base[2]
        /\ calls[c].base[3].timestamp = Some(1)
        /\ Len(calls[c].ret) = 3

\* the last n elements of a sequence
LastOf(xs, n) == SubSeq(xs, Len(xs) - n + 1, Len(xs))

\* C2: with a history of length L, getConversationWindow(userId, {lastN}) returns
\* the last lastN messages in their order if 0 < lastN <= L, and the whole
\* history if lastN > L or lastN is absent or <= 0; it asks the store for the
\* range from -lastN (or 0) to -1.
C2_WindowReturnsLastN ==
    \A c \in WindowReads :
        LET lastN == calls[c].arg
            history == calls[c].base
            positive == lastN # Undefined /\ lastN[1] > 0
        IN /\ (positive /\ lastN[1] <= Len(history))
                => SameMessages(calls[c].ret, LastOf(history, lastN[1]))
           /\ (positive /\ lastN[1] > Len(history)) => SameMessages(calls[c].ret, history)
           /\ ~positive => SameMessages(calls[c].ret, history)
           /\ calls[c].range = <<IF positive THEN 0 - lastN[1] ELSE 0, -1>>

\* C2's case: five messages appended, lastN = 2 returns the fourth and the fifth
C2_Witness ==
    \E c \in WindowReads :
        /\ calls[c].arg = Some(2)
        /\ Len(calls[c].base) = 5
        /\ calls[c].base[3] # calls[c].base[4]
        /\ calls[c].base[4] # calls[c].base[5]
        /\ Len(calls[c].ret) = 2
        /\ SameValue(calls[c].ret[1], calls[c].base[4])
        /\ SameValue(calls[c].ret[2], calls[c].base[5])

\* the reads that have returned, and what each returns when nothing is stored
Reads ==
    {c \in DOMAIN calls :
        /\ calls[c].pc = "done"
        /\ calls[c].op \in {"getConversationWindow", "getModel", "getConversationMetadata"}}

\* C3: after clearHistory(userId), and until the next write for the user,
\* getConversationWindow returns an empty sequence, getModel returns absent and
\* getConversationMetadata returns absent, whatever was written before.
C3_ReadsAfterClearAreEmpty ==
    \A c \in Reads :
        calls[c].afterClear.on =>
            CASE calls[c].op = "getConversationWindow" -> calls[c].ret = <<>>
              [] calls[c].op = "getModel" -> calls[c].ret = Null
              [] calls[c].op = "getConversationMetadata" -> calls[c].ret = Null

\* C3's case: the clear removed all three records of the user, and the
\* metadata is read after it
C3_Witness ==
    \E c \in Reads :
        /\ calls[c].op = "getConversationMetadata"
        /\ calls[c].afterClear.on
        /\ calls[c].afterClear.removed = UserKeys(calls[c].user)
        /\ calls[c].ret = Null

\* the upserts that have merged: the record read (cur), the update (arg), the
\* merged record
Upserts == {c \in DOMAIN calls : calls[c].op = "upsertConversationMetadata"}
NestedMaps == {"tokenUsage", "userPreferences", "toolState", "extra"}
ScalarFields == {"summary", "totalTurns", "lastInteractionAt", "sentiment", "goal"}
\* the nested map K of the stored record, of the update and of the merged record
StoredMap(c, K) == ObjOf(Get(ObjOf(calls[c].cur), K))
UpdateMap(c, K) == ObjOf(Get(calls[c].arg[1], K))
MergedMap(c, K) == ObjOf(Get(calls[c].merged[1], K))

\* C4 as stated: each nested map of the merged record holds every key of the
\* stored map and of the update, with the update's value on a key of the
\* update and the stored value on a key the update does not mention.
C4_NestedMapsMergeKeyByKey ==
    \A c \in Upserts : \A K \in NestedMaps :
        \A k \in (DOMAIN StoredMap(c, K)) \cup (DOMAIN UpdateMap(c, K)) :
            /\ k \in DOMAIN MergedMap(c, K)
            /\ MergedMap(c, K)[k] = IF k \in DOMAIN UpdateMap(c, K)
                                    THEN UpdateMap(c, K)[k]
                                    ELSE StoredMap(c, K)[k]

\* a tokenUsage counter that the update gives as undefined
UndefinedCounter(c, K, k) ==
    /\ K = "tokenUsage"
    /\ k \in TokenKeys
    /\ k \in DOMAIN UpdateMap(c, K)
    /\ UpdateMap(c, K)[k] = Undefined

\* C4 as amended: each nested map of the merged record holds every key of the
\* stored map and of the update, with the update's value on a key of the
\* update and the stored value on a key the update does not mention, except
\* that a tokenUsage counter the update gives as undefined keeps its stored value.
C4_NestedMapsMergeExceptUndefinedCounters ==
    \A c \in Upserts : \A K \in NestedMaps :
        \A k \in (DOMAIN StoredMap(c, K)) \cup (DOMAIN UpdateMap(c, K)) :
            /\ k \in DOMAIN MergedMap(c, K)
            /\ MergedMap(c, K)[k] = IF k \in DOMAIN UpdateMap(c, K) /\ ~UndefinedCounter(c, K, k)
                                    THEN UpdateMap(c, K)[k]
                                    ELSE Get(StoredMap(c, K), k)

\* C4's case: {promptTokens: 5} is stored, {completionTokens: 10} is upserted,
\* and tokenUsage holds both
C4_Witness ==
    \E c \in Upserts :
        /\ calls[c].pc = "done"
        /\ StoredMap(c, "tokenUsage") = [promptTokens |-> Some(5)]
        /\ UpdateMap(c, "tokenUsage") = [completionTokens |-> Some(10)]
        /\ SameProps(MergedMap(c, "tokenUsage"), [promptTokens |-> Some(5), completionTokens |-> Some(10)])
        /\ SameProps(ObjOf(Get(store[calls[c].key][1], "tokenUsage")),
                     [promptTokens |-> Some(5), completionTokens |-> Some(10)])

\* C5: a scalar field present in the update has the update's value in the
\* merged record; a scalar field absent from the update keeps its stored value,
\* neither erased nor changed.
C5_ScalarsOverwrittenOnlyWhenPresent ==
    \A c \in Upserts : \A k \in ScalarFields :
        LET stored == ObjOf(calls[c].cur)
            update == calls[c].arg[1]
            merged == calls[c].merged[1]
        IN /\ k \in DOMAIN update => (k \in DOMAIN merged /\ merged[k] = update[k])
           /\ (k \notin DOMAIN update /\ k \in DOMAIN stored)
                => (k \in DOMAIN merged /\ merged[k] = stored[k])
           /\ (k \notin DOMAIN update /\ k \notin DOMAIN stored) => k \notin DOMAIN merged

\* C5's case: summary is stored and overwritten by another value, totalTurns is
\* stored and not in the update
C5_Witness ==
    \E c \in Upserts :
        /\ calls[c].pc = "done"
        /\ Get(ObjOf(calls[c].cur), "summary") = Some("s1")
        /\ Get(calls[c].arg[1], "summary") = Some("s2")
        /\ "totalTurns" \notin DOMAIN calls[c].arg[1]
        /\ Get(calls[c].merged[1], "summary") = Some("s2")
        /\ Get(calls[c].merged[1], "totalTurns") = Some(1)

\* the upserts that have stored their merged record
WrittenUpserts == {c \in Upserts : calls[c].pc \in {"expire", "done"}}

\* C6: an upsert of the update that the upsert before it applied (nothing else
\* having touched the metadata in between) stores the document the first one
\* stored and returns the record the first one returned.
C6_UpsertIdempotent ==
    \A c \in WrittenUpserts :
        (calls[c].base # Undefined /\ calls[c].base[1].arg = calls[c].arg[1])
            => /\ calls[c].wrote = Some(calls[c].base[1].doc)
               /\ calls[c].merged = Some(calls[c].base[1].ret)
               /\ calls[c].pc = "done" => calls[c].ret = Some(calls[c].base[1].ret)

\* C6's case: a record with a summary is stored, a tokenUsage update is applied
\* twice in a row, and the second application has returned
C6_Witness ==
    \E c \in WrittenUpserts :
        /\ calls[c].pc = "done"
        /\ calls[c].base # Undefined
        /\ calls[c].base[1].arg = calls[c].arg[1]
        /\ "tokenUsage" \in DOMAIN calls[c].arg[1]
        /\ calls[c].arg[1].tokenUsage # Undefined
        /\ Get(calls[c].ret[1], "summary") = Some("s1")

\* the metadata stored before an upsert read it, as the history has it
StoredBefore(c) == IF calls[c].base = Undefined THEN Undefined ELSE Some(calls[c].base[1].doc)

\* C7: the record upsertConversationMetadata returns is the merge of the
\* metadata stored before the call (absent if none) with the update, it is the
\* record that was written, and a getConversationMetadata issued next returns
\* the same record (property by property).
C7_UpsertReturnsWhatIsStored ==
    /\ \A c \in Upserts :
           calls[c].pc = "done"
               => /\ calls[c].ret = Some(mergeMetadata(StoredBefore(c), calls[c].arg[1]))
                  /\ SameValue(calls[c].wrote[1], calls[c].ret[1])
    /\ \A c \in Reads :
           (calls[c].op = "getConversationMetadata" /\ calls[c].base # Undefined)
               => /\ calls[c].ret # Null
                  /\ SameValue(calls[c].ret[1], calls[c].base[1].ret)

\* C7's case: two upserts, the second returning a record with properties of
\* both (and a tokenUsage that is undefined, which the stored document leaves
\* out), then a read
C7_Witness ==
    \E c \in Reads :
        /\ calls[c].op = "getConversationMetadata"
        /\ calls[c].base # Undefined
        /\ Get(calls[c].ret[1], "totalTurns") = Some(1)
        /\ Get(calls[c].ret[1], "summary") = Some("s2")
        /\ calls[c].ret[1] # calls[c].base[1].ret

\* C8: getModel returns the model of the most recent setModel for the user
\* since the model last went away (clearHistory, expiry), and absent, with no
\* error, when no model is stored.
C8_GetModelReturnsLastSet ==
    \A c \in Reads :
        calls[c].op = "getModel"
            => calls[c].ret = IF calls[c].base = Undefined THEN Null ELSE Some(calls[c].base[1].name)

\* C8's case: modelA is set, then modelB, then the model is read
C8_Witness ==
    \E c \in Reads :
        /\ calls[c].op = "getModel"
        /\ calls[c].base # Undefined
        /\ calls[c].base[1].prev = Some("modelA")
        /\ calls[c].base[1].name = "modelB"
        /\ calls[c].ret = Some("modelB")

\* the records of a user that exist before a step, and those of them the step removes
Existing(u) == {k \in UserKeys(u) : store[k] # <<>>}
Removed(u) == {k \in Existing(u) : store'[k] = <<>>}

\* C9: clearHistory removes the user's three records in one step of the store:
\* it ends with that step and leaves none of the three behind, and no step
\* other than the passing of time (expiry) removes some of a user's existing
\* records while it leaves others, so no state lies between "all there" and
\* "all removed" for a concurrent reader to observe.
C9_ClearRemovesAllAtOnce ==
    [][/\ \A c \in DOMAIN calls, u \in Users :
              clearHistory(c, u)
                  => /\ calls'[c].pc = "done"
                     /\ Removed(u) = Existing(u)
                     /\ \A k \in UserKeys(u) : store'[k] = <<>> /\ ttl'[k] = NoTTL
       /\ \A u \in Users :
              now' = now => Removed(u) = {} \/ Removed(u) = Existing(u)]_vars

\* C9's case: one caller's clearHistory removed at least two records of the
\* user, and the other caller then read one of them and found nothing
C9_Witness ==
    \E c \in DOMAIN calls, r \in Reads :
        /\ c # r
        /\ calls[c].op = "clearHistory"
        /\ calls[r].user = calls[c].user
        /\ calls[r].afterClear.on
        /\ Cardinality(calls[r].afterClear.removed) >= 2
        /\ calls[r].key \in calls[r].afterClear.removed
        /\ calls[r].ret \in {Null, <<>>}

\* the keys an operation may change: the record it targets
TargetOf(op, u) ==
    CASE op = "addMessage" -> {getMessagesKey(u)}
      [] op = "setModel" -> {getModelKey(u)}
      [] op = "upsertConversationMetadata" -> {getMetadataKey(u)}
      [] op = "clearHistory" -> UserKeys(u)
      [] OTHER -> {}

\* the keys whose value or expiry a step changes
Changed == {k \in Keys : store'[k] # store[k] \/ ttl'[k] # ttl[k]}

\* the step is a store call of an operation of caller c, whatever its inputs
CallOf(c) ==
    \/ \E u \in Users, m \in MessageInputs : addMessagePush(c, u, m)
    \/ \E u \in Users, n \in ModelNames : setModelSet(c, u, n)
    \/ \E u \in Users, p \in MetaInputs : upsertGet(c, u, p)
    \/ upsertSet(c)
    \/ applyTTL(c)
    \/ \E u \in Users : getModel(c, u) \/ getConversationMetadata(c, u) \/ clearHistory(c, u)
    \/ \E u \in Users, n \in LastNInputs : getConversationWindow(c, u, n)

\* the step is a store call of an operation of caller c: it changes what is
\* recorded of the caller, or it repeats the caller's last operation and result
StepOf(c) == calls'[c] # calls[c] \/ (calls' = calls /\ budget' # budget /\ CallOf(c))

\* the three keys of a user are pairwise distinct, and no two users share a key
KeysDistinct ==
    /\ \A u \in Users : Cardinality(UserKeys(u)) = 3
    /\ \A u, v \in Users : u # v => UserKeys(u) \cap UserKeys(v) = {}

\* C10: the keys of the users are all distinct, and every store call of an
\* operation invoked for a user changes, in value and in expiry, nothing but
\* the record the operation targets: the message list for addMessage, the model
\* for setModel, the metadata for upsertConversationMetadata, the user's three
\* records for clearHistory, nothing for a read; so it changes no record of
\* another user.
C10_OperationsChangeOnlyTheirRecord ==
    [][/\ KeysDistinct
       /\ \A c \in DOMAIN calls :
              StepOf(c)
                  => /\ Changed \subseteq TargetOf(calls'[c].op, calls'[c].user)
                     /\ \A v \in Users \ {calls'[c].user} : Changed \cap UserKeys(v) = {}]_vars

\* C10's case: one caller has written a record of one user while the other
\* caller is still inside its operation on the other user, who has records too
C10_Witness ==
    \E c, d \in DOMAIN calls :
        /\ c # d
        /\ calls[c].user # calls[d].user
        /\ calls[c].op \in {"addMessage", "setModel", "upsertConversationMetadata"}
        /\ calls[c].pc = "done"
        /\ calls[d].pc # "done"
        /\ store[getMessagesKey(calls[d].user)] # <<>> \/ store[getModelKey(calls[d].user)] # <<>>
        /\ store[calls[c].key] # <<>>

\* C11: an upsert stores the merge of its update into the record its own get
\* returned, whatever was stored in between; so of two upserts of one user that
\* read the same record, the one that writes last stores a record without the
\* fields that only the other one supplied.
C11_UpsertWritesMergeOfItsOwnRead ==
    \A c \in WrittenUpserts :
        /\ calls[c].wrote = Some(JSONStringify(mergeMetadata(calls[c].cur, calls[c].arg[1])))
        /\ \A d \in WrittenUpserts \ {c} :
               (calls[d].user = calls[c].user /\ calls[d].cur = calls[c].cur
                    /\ store[calls[c].key] = calls[c].wrote)
                   => \A k \in DOMAIN calls[d].arg[1] :
                          (k \notin DOMAIN calls[c].arg[1] /\ k \notin DOMAIN ObjOf(calls[c].cur))
                              => k \notin DOMAIN store[calls[c].key][1]

\* C11's case: the two callers upsert different fields for one user, both read
\* the same (empty) record, both have returned, and the stored metadata has the
\* tokenUsage of one and not the summary of the other
C11_Witness ==
    \E c, d \in Upserts :
        /\ c # d
        /\ calls[c].user = calls[d].user
        /\ calls[c].pc = "done" /\ calls[d].pc = "done"
        /\ calls[c].cur = calls[d].cur
        /\ "summary" \in DOMAIN calls[c].arg[1]
        /\ calls[c].wrote # <<>> /\ "summary" \in DOMAIN calls[c].wrote[1]
        /\ store[calls[d].key] = calls[d].wrote
        /\ "tokenUsage" \in DOMAIN store[calls[d].key][1]
        /\ "summary" \notin DOMAIN store[calls[d].key][1]

\* xs is a prefix of ys
IsPrefix(xs, ys) == Len(xs) <= Len(ys) /\ SubSeq(ys, 1, Len(xs)) = xs
\* the stored message list of a user (the empty list when there is no such key)
MessageList(u) == store[getMessagesKey(u)]
\* the step is a clearHistory for u; the step is the expiry of u's message list
ClearStep(u) == budget' < budget /\ \E c \in DOMAIN calls : clearHistory(c, u)
ListExpires(u) == now' # now /\ ttl[getMessagesKey(u)] = 1
\* the step is the push of an addMessage for u
PushStep(u) == budget' < budget /\ \E c \in DOMAIN calls, m \in MessageInputs : addMessagePush(c, u, m)

\* C12 as stated: over every step that is not a clearHistory for the user, the
\* stored message list before the step is a prefix of the list after it, and
\* the push of an addMessage makes the list one message longer.
C12_ListIsAppendOnly ==
    [][\A u \in Users :
          /\ ~ClearStep(u) => IsPrefix(MessageList(u), MessageList(u)')
          /\ PushStep(u) => Len(MessageList(u)') = Len(MessageList(u)) + 1]_vars

\* C12 as amended: over every step that is neither a clearHistory for the user
\* nor the expiry of the user's message list, the stored message list before
\* the step is a prefix of the list after it, and the push of an addMessage
\* makes the list one message longer.
C12_ListIsAppendOnlyUntilClearOrExpiry ==
    [][\A u \in Users :
          /\ (~ClearStep(u) /\ ~ListExpires(u)) => IsPrefix(MessageList(u), MessageList(u)')
          /\ PushStep(u) => Len(MessageList(u)') = Len(MessageList(u)) + 1]_vars

\* C12's case: as many messages as the run allows were appended, the same
\* message twice in a row among them, and all of them are in the list
C12_Witness ==
    /\ Len(MessageList("u1")) = MaxWindowOps
    /\ MessageList("u1")[1] = MessageList("u1")[2]
    /\ MessageList("u1")[2] # MessageList("u1")[3]
    /\ Len(appended["u1"]) = MaxWindowOps

\* the step is the store write of an operation for u that targets the key k
WriteStep(u, k) ==
    \/ k = getMessagesKey(u) /\ PushStep(u)
    \/ k = getModelKey(u) /\ \E c \in DOMAIN calls, n \in ModelNames : setModelSet(c, u, n)
    \/ k = getMetadataKey(u) /\ \E c \in DOMAIN calls : calls[c].user = u /\ upsertSet(c)
\* the step is a read operation
ReadStep ==
    /\ budget' < budget
    /\ \E c \in DOMAIN calls, u \in Users :
           \/ getModel(c, u)
           \/ getConversationMetadata(c, u)
           \/ \E n \in LastNInputs : getConversationWindow(c, u, n)
\* the step is the expiry of the key k
Expires(k) == now' # now /\ ttl[k] = 1
\* the step creates the record under k; the step makes it disappear
Created(k) == store[k] = <<>> /\ store'[k] # <<>>
Destroyed(k) == store[k] # <<>> /\ store'[k] = <<>>

\* C13 as stated: a record comes to exist only by a write operation that
\* targets it, a read changes nothing in the store, and a record disappears
\* only by a clearHistory for its user, which leaves none of the user's three.
C13_CreatedOnWriteDestroyedByClear ==
    [][/\ ReadStep => store' = store
       /\ \A u \in Users : \A k \in UserKeys(u) :
              /\ Created(k) => WriteStep(u, k)
              /\ Destroyed(k) => (ClearStep(u) /\ \A j \in UserKeys(u) : store'[j] = <<>>)]_vars

\* C13 as amended: a record comes to exist only by a write operation that
\* targets it, a read changes nothing in the store, and a record disappears
\* only by a clearHistory for its user, which leaves none of the user's three,
\* or by the running out of the expiry set on its own key.
C13_CreatedOnWriteDestroyedByClearOrExpiry ==
    [][/\ ReadStep => store' = store
       /\ \A u \in Users : \A k \in UserKeys(u) :
              /\ Created(k) => WriteStep(u, k)
              /\ Destroyed(k) => \/ ClearStep(u) /\ \A j \in UserKeys(u) : store'[j] = <<>>
                                 \/ Expires(k)]_vars

\* C13's case: the three records of the user were written, a second passed
\* with all of them still there, and one clearHistory removed the three
C13_Witness ==
    /\ now > 0
    /\ cleared["u1"].on
    /\ cleared["u1"].removed = UserKeys("u1")
    /\ \A k \in UserKeys("u1") : store[k] = <<>>

\* a conversation TTL is configured: conversationTTLSeconds is a positive number
ConversationTTLConfigured ==
    /\ instance # Undefined
    /\ conversationTTLSeconds # Undefined
    /\ conversationTTLSeconds[1] > 0

\* C14: with a conversation TTL configured, the push of every addMessage is
\* followed by one expire call on the message-list key with
\* conversationTTLSeconds, and that call sets the countdown of the list to
\* conversationTTLSeconds whatever was left of it; with none configured
\* (absent, zero or negative) addMessage ends with its push, and the message
\* list never has an expiry.
C14_AddMessageRestartsExpiry ==
    [][\A u \in Users :
          /\ PushStep(u) =>
                 \E c \in DOMAIN calls :
                     /\ calls'[c].op = "addMessage" /\ calls'[c].user = u
                     /\ ttl' = ttl
                     /\ IF ConversationTTLConfigured
                        THEN /\ calls'[c].pc = "expire"
                             /\ calls'[c].key = getMessagesKey(u)
                             /\ calls'[c].ttlSeconds = conversationTTLSeconds
                        ELSE calls'[c].pc = "done"
          /\ \A c \in DOMAIN calls :
                 (calls[c].op = "addMessage" /\ calls[c].user = u
                      /\ calls[c].pc = "expire" /\ calls'[c].pc = "done")
                     => /\ MessageList(u) # <<>> => ttl'[getMessagesKey(u)] = conversationTTLSeconds[1]
                        /\ \A k \in Keys \ {getMessagesKey(u)} : ttl'[k] = ttl[k]
          /\ ~ConversationTTLConfigured => ttl'[getMessagesKey(u)] = NoTTL]_vars

\* C14's case: a message appended at second 0 and one at second 1, the expire
\* of the second addMessage issued at second 2 with one second left on the
\* list, and the countdown is back at conversationTTLSeconds
C14_Witness ==
    \E c \in DOMAIN calls :
        /\ calls[c].op = "addMessage" /\ calls[c].pc = "done"
        /\ ConversationTTLConfigured
        /\ Len(MessageList("u1")) = 2
        /\ Len(appended["u1"]) = 2
        /\ appended["u1"][1].timestamp = Some(0)
        /\ appended["u1"][2].timestamp = Some(1)
        /\ now = 2
        /\ ttl[getMessagesKey("u1")] = conversationTTLSeconds[1]

\* a TTL is configured: it is given and positive
Configured(ttlSeconds) == ttlSeconds # Undefined /\ ttlSeconds[1] > 0
\* the expiry the model key is to get: the model TTL if one is configured, else
\* the conversation TTL if one is configured, else none
ExpectedModelTTL ==
    IF Configured(modelTTLSeconds) THEN modelTTLSeconds
    ELSE IF Configured(conversationTTLSeconds) THEN conversationTTLSeconds
    ELSE Undefined
\* the step is the set of a setModel of caller c
SetModelStep(c) == budget' < budget /\ \E u \in Users, n \in ModelNames : setModelSet(c, u, n)

\* C15: under every configuration of the two TTLs (absent, zero, negative,
\* positive), the set of setModel is followed by an expire on the model key with
\* modelTTLSeconds if that is configured, else with conversationTTLSeconds if
\* that is configured, and by no expire otherwise; the expire sets the
\* countdown of the model to that value.
C15_SetModelExpiryFallsBack ==
    [][\A c \in DOMAIN calls :
          /\ SetModelStep(c) =>
                 IF ExpectedModelTTL # Undefined
                 THEN /\ calls'[c].pc = "expire"
                      /\ calls'[c].key = getModelKey(calls'[c].user)
                      /\ calls'[c].ttlSeconds = ExpectedModelTTL
                 ELSE calls'[c].pc = "done"
          /\ (calls[c].op = "setModel" /\ calls[c].pc = "expire" /\ calls'[c].pc = "done"
                  /\ store[calls[c].key] # <<>>)
                 => ttl'[calls[c].key] = ExpectedModelTTL[1]]_vars

\* the step is the rejection of a store call of caller c
FailStep(c) ==
    \/ \E e \in StoreErrors : storeCallFails(c, e)
    \/ /\ budget' < budget
       /\ \E op \in Operations, u \in Users, e \in StoreErrors : firstCallFails(c, op, u, e)

\* C16: when a store call of an operation is rejected, the operation ends at
\* once with the error the call was rejected with, and the store is as the
\* calls that succeeded before left it (nothing is undone); the caller's next
\* step after an error is a new operation, never a further call of the failed
\* one; and an operation only moves forward through its store calls (get,
\* set, expire), so it issues each at most once.
C16_StoreErrorsPropagateWithoutRetry ==
    [][\A c \in DOMAIN calls :
          /\ FailStep(c) =>
                 /\ calls'[c].pc = "done"
                 /\ calls'[c].thrown # Undefined
                 /\ calls'[c].err = calls'[c].thrown
                 /\ store' = store /\ ttl' = ttl
          /\ (calls[c].err # Undefined /\ calls'[c] # calls[c]) => budget' < budget
          /\ (calls[c].pc = "set" /\ calls'[c] # calls[c]) => calls'[c].pc \in {"expire", "done"}
          /\ (calls[c].pc = "expire" /\ calls'[c] # calls[c]) => calls'[c].pc = "done"
          /\ calls'[c].err # Undefined => calls'[c].pc = "done"]_vars

\* C16's case: the push of an addMessage succeeded, its expire was rejected,
\* the operation ended with that error, and the message is in the list, which
\* has no expiry
C16_Witness ==
    \E c \in DOMAIN calls :
        /\ calls[c].op = "addMessage" /\ calls[c].pc = "done"
        /\ calls[c].err = Some("HTTP 500")
        /\ wantsExpire(calls[c].ttlSeconds)
        /\ Len(MessageList(calls[c].user)) = 1
        /\ ttl[getMessagesKey(calls[c].user)] = NoTTL

\* the arguments of a getInstance call supply no endpoint: no argument, an
\* empty string, or a configuration object with no baseURL or an empty one
SuppliesNoEndpoint(a) ==
    CASE a.form = "none" -> TRUE
      [] a.form = "string" -> a.baseURL = ""
      [] a.form = "object" -> Get(ObjOf(a.obj), "baseURL") \in {Undefined, Some("")}

\* C17: while there is no instance, a getInstance call that supplies no
\* endpoint throws and leaves no instance, and one that supplies an endpoint
\* returns and creates the instance with that endpoint, also after calls that threw.
C17_NoEndpointThrowsAndCreatesNothing ==
    [][\A a \in GetInstanceInputs :
          (instance = Undefined /\ getInstance(a))
              => IF SuppliesNoEndpoint(a)
                 THEN lastInit' = "threw" /\ instance' = Undefined
                 ELSE /\ lastInit' = "created"
                      /\ instance' # Undefined
                      /\ instance'[1].baseURL = Some(URL)]_vars

\* C17's case: a getInstance call has thrown, and there is no instance
C17_Witness == lastInit = "threw" /\ instance = Undefined

\* the TTL an operation of caller c was given, for the operations that take one
UsesConversationTTL(c) == calls[c].op \in {"addMessage", "upsertConversationMetadata"}

\* C18: once an instance exists, every getInstance call, whatever its
\* arguments (with other TTLs, another apiVersion, or no endpoint), returns
\* that instance and does not throw, and no step replaces or reconfigures the
\* instance; so every operation runs with the TTLs of the one instance.
C18_OneInstanceForAllCalls ==
    [][/\ instance # Undefined => instance' = instance
       /\ \A a \in GetInstanceInputs :
              (instance # Undefined /\ getInstance(a)) => lastInit' = "existing"
       /\ \A c \in DOMAIN calls :
              (calls'[c] # calls[c] /\ calls[c].pc = "done" /\ calls'[c].err = Undefined)
                  => /\ UsesConversationTTL(c)'
                         => calls'[c].ttlSeconds = instance[1].conversationTTLSeconds
                     /\ calls'[c].op = "setModel"
                         => calls'[c].ttlSeconds = Coalesce(instance[1].modelTTLSeconds,
                                                            instance[1].conversationTTLSeconds)]_vars

\* C18's case: an instance with no TTL and the default apiVersion exists, the
\* last getInstance call returned it as it was, and a setModel ran with no TTL
C18_Witness ==
    /\ lastInit = "existing"
    /\ instance # Undefined
    /\ instance[1].apiVersion = Some("v1")
    /\ instance[1].conversationTTLSeconds = Undefined
    /\ \E c \in DOMAIN calls :
           calls[c].op = "setModel" /\ calls[c].pc = "done" /\ calls[c].ttlSeconds = Undefined

\* where the n-th message of caller c is in the stored list of the user
PositionsOf(c, n) ==
    {j \in 1..Len(MessageList("u1")) :
        Get(MessageList("u1")[j], "content") = MessageOf(c, n).content}

\* C19: whatever the interleaving of the pushes and expires of the callers'
\* addMessage calls (no clearHistory, no expiry), the stored list holds each
\* message pushed exactly once and nothing else, and the messages of one
\* caller are in the order in which the caller appended them.
C19_ConcurrentAppendsLoseNothing ==
    /\ \A c \in DOMAIN calls : \A n \in 1..SentBy(c) : Cardinality(PositionsOf(c, n)) = 1
    /\ \A c \in DOMAIN calls : \A n \in 1..SentBy(c) : \A k \in 1..SentBy(c) :
           n < k => \A i \in PositionsOf(c, n), j \in PositionsOf(c, k) : i < j
    /\ \A j \in 1..Len(MessageList("u1")) :
           \E c \in DOMAIN calls : \E n \in 1..SentBy(c) : j \in PositionsOf(c, n)

\* C19's case: three callers have appended, one of them twice, all calls have
\* returned, and the list has the four messages, the two of the one caller
\* with a message of another caller between them
C19_Witness ==
    /\ \A c \in DOMAIN calls : calls[c].pc = "done" /\ SentBy(c) >= 1
    /\ Len(MessageList("u1")) = 4
    /\ \E c \in DOMAIN calls :
           /\ SentBy(c) = 2
           /\ \E i \in PositionsOf(c, 1), j \in PositionsOf(c, 2) : j > i + 1

\* C20: when the set of an upsert runs after a clearHistory for its user that
\* nothing has written since, it stores again every scalar field of the record
\* the upsert read before the clear (fields its update does not mention, with
\* their values from before the clear), into a metadata key the clear had
\* removed, while the message list and the model stay absent.
C20_UpsertWritesBackClearedMetadata ==
    [][\A d \in DOMAIN calls :
          (calls[d].pc = "set" /\ calls'[d].pc \in {"expire", "done"}
               /\ calls'[d].err = Undefined /\ cleared[calls[d].user].on)
              => LET u == calls[d].user
                     read == ObjOf(calls[d].cur)
                     update == calls[d].arg[1]
                 IN /\ store[getMetadataKey(u)] = <<>>
                    /\ store'[getMetadataKey(u)] # <<>>
                    /\ \A k \in (DOMAIN read) \cap ScalarFields :
                           k \notin DOMAIN update => Get(store'[getMetadataKey(u)][1], k) = read[k]
                    /\ store'[getMessagesKey(u)] = <<>>
                    /\ store'[getModelKey(u)] = <<>>]_vars

\* C20's case: a message and a summary were stored, one caller's upsert of
\* tokenUsage read the record, the other caller's clearHistory removed the
\* list and the metadata, the upsert then wrote and returned, and a
\* getConversationMetadata after it returns the summary from before the clear;
\* the list and the model are absent
C20_Witness ==
    \E d \in Upserts, r \in Reads :
        /\ d # r
        /\ calls[d].pc = "done"
        /\ calls[d].afterClear.on
        /\ {getMessagesKey("u1"), getMetadataKey("u1")} \subseteq calls[d].afterClear.removed
        /\ Get(ObjOf(calls[d].cur), "summary") = Some("s1")
        /\ "summary" \notin DOMAIN calls[d].arg[1]
        /\ calls[r].op = "getConversationMetadata"
        /\ calls[r].base # Undefined
        /\ Some(calls[r].base[1].doc) = calls[d].wrote
        /\ calls[r].ret # Null
        /\ Get(calls[r].ret[1], "summary") = Some("s1")
        /\ store[getMessagesKey("u1")] = <<>>
        /\ store[getModelKey("u1")] = <<>>
====
